---- MODULE Spec2Model ----
(***************************************************************************)
(* BoxChronicle monitor: the Express server (index.js: the in-memory       *)
(* `state` object, GET /api/status, POST /api/run, the child process's     *)
(* 'close' listener, updateStatsFromLogs) and the browser monitor          *)
(* (public/js/monitor.js: the status poll and the Run Now button).         *)
(*                                                                         *)
(* Time is a clock of minutes (`now`) and a calendar date (`today`).       *)
(* ISO strings produced by toISOString() are represented by the instant    *)
(* they denote; the timestamp of a log line by its date.                   *)
(* Every Express handler and every listener runs to completion on the      *)
(* single JavaScript thread (none of them awaits), so each is one action.  *)
(***************************************************************************)
EXTENDS Integers, Sequences, FiniteSets, TLC

VARIABLES
    up,          \* the node process is alive (app.listen, index.js 125)
    state,       \* the `state` object of index.js 14-24
    alive,       \* python main.py processes spawned by the server, not yet closed
    now,         \* Date.now(), in minutes
    today,       \* new Date().toISOString().split('T')[0], as a day number
    logs,        \* logs/boxchronicle_<day>.log: NoFile or File(its lines)
    resp,        \* the HTTP response written by the step just taken, or NoResp
    btnDisabled, \* monitor.js: this.runNowBtn.disabled
    btnLabel,    \* monitor.js: this.runNowBtn.innerHTML
    statusText,  \* monitor.js: this.statusText.textContent
    pollReq,     \* the browser's fetch('/api/status'): idle, sent, or its answer
    runReq,      \* the browser's fetch('/api/run'): idle, sent, or its answer
    latest       \* what the latest response the browser processed says of isRunning

serverVars == <<up, state, alive, resp>>
envVars    == <<now, today, logs>>
clientVars == <<btnDisabled, btnLabel, statusText, pollReq, runReq, latest>>
vars       == <<up, state, alive, now, today, logs, resp,
                btnDisabled, btnLabel, statusText, pollReq, runReq, latest>>

----------------------------------------------------------------------------
(* Bounds of the model *)
MaxTime == 2
MaxDay == 1
MaxLogLines == 2

(* Program constants *)
NextRunDelay == 5
RecentLimit == 10

\* null / no match, kept apart from every instant, date and count
Null == 0 - 1
NoTs == 0 - 1
NoCount == 0 - 1
NoFile == [exists |-> FALSE, lines |-> <<>>]
File(lines) == [exists |-> TRUE, lines |-> lines]
NoResp == [kind |-> "none"]
Idle == [kind |-> "idle"]
Sent == [kind |-> "sent"]

Days == 0..MaxDay
ExitCodes == {0, 1}
\* the batch sizes main.py reports
BatchSizes == {1, 2}
SpawnOutcomes == {"started", "throws", "startError"}

----------------------------------------------------------------------------
(* Log lines.  A line is described by what the three regular expressions   *)
(* and the two substring tests of updateStatsFromLogs see in it:           *)
(*   ts      the date of a leading 'YYYY-MM-DD HH:MM:SS', or NoTs          *)
(*   success the line includes 'Successfully processed'                    *)
(*   count   the N of 'processed N events', or NoCount                     *)
SuccessLine(d, n) == [ts |-> d, success |-> TRUE, count |-> n]
ErrorLine(d) == [ts |-> d, success |-> FALSE, count |-> NoCount]

\* what main.py writes on day d, one line per ingestion attempt:
\*   '<d> HH:MM:SS ... Successfully processed <n> events'  or a failure line
LinesOn(d) ==
    {SuccessLine(d, n) : n \in BatchSizes} \cup {ErrorLine(d)}

\* let state = { ... }
InitState ==
    [lastRun |-> Null, nextRun |-> Null, isRunning |-> FALSE,
     stats |-> [totalEvents |-> 0, eventsToday |-> 0, lastBatchSize |-> 0],
     recentActivity |-> <<>>]

RECURSIVE SumCounts(_)
\* lines.reduce((sum, line) => sum + (match ? parseInt(match[1]) : 0), 0)
SumCounts(lines) ==
    IF lines = <<>> THEN 0
    ELSE (IF Head(lines).count # NoCount THEN Head(lines).count ELSE 0)
         + SumCounts(Tail(lines))

\* Array.prototype.slice(-n)
LastN(s, n) ==
    IF Len(s) <= n THEN s ELSE SubSeq(s, Len(s) - n + 1, Len(s))

IsEventLine(l) == l.success
EventLines(lines) == SelectSeq(lines, IsEventLine)

\* line.includes(today): the date string occurs in the line
TodayLines(eventLines, day) ==
    SelectSeq(eventLines, LAMBDA l : l.ts = day)

Activity(l) ==
    [timestamp |-> IF l.ts # NoTs THEN l.ts ELSE Null,
     type      |-> "Event Processing",
     status    |-> "SUCCESS",
     details   |-> l.count]

RECURSIVE MapActivity(_)
MapActivity(lines) ==
    IF lines = <<>> THEN <<>>
    ELSE <<Activity(Head(lines))>> \o MapActivity(Tail(lines))

RecentActivity(eventLines) ==
    SelectSeq(MapActivity(LastN(eventLines, RecentLimit)),
              LAMBDA a : a.timestamp # Null)

LastBatchSize(eventLines, old) ==
    IF eventLines # <<>>
    THEN (IF eventLines[Len(eventLines)].count # NoCount
          THEN eventLines[Len(eventLines)].count ELSE 0)
    ELSE old

\* a refresh that rebuilds the state object from its initial value
updateStatsFromLogs_FreshState(s, files, day) ==
    IF files[day] = NoFile THEN s
    ELSE LET eventLines == EventLines(files[day].lines) IN
         [InitState EXCEPT
            !.stats = [totalEvents   |-> SumCounts(eventLines),
                       eventsToday   |-> SumCounts(TodayLines(eventLines, day)),
                       lastBatchSize |-> LastBatchSize(eventLines, s.stats.lastBatchSize)],
            !.recentActivity = RecentActivity(eventLines)]

\* updateStatsFromLogs: the state object after the call.  With no logs
\* directory or no file for today it returns early.  (The catch block only
\* logs; the fs calls are taken not to throw once existsSync has succeeded.)
updateStatsFromLogs(s, files, day) ==
    IF files[day] = NoFile THEN s
    ELSE LET eventLines == EventLines(files[day].lines) IN
         [s EXCEPT
            !.stats = [totalEvents   |-> SumCounts(eventLines),
                       eventsToday   |-> SumCounts(TodayLines(eventLines, day)),
                       lastBatchSize |-> LastBatchSize(eventLines, s.stats.lastBatchSize)],
            !.recentActivity = RecentActivity(eventLines)]

\* the body of the answer of GET /api/status
StatusBody(s) ==
    [kind           |-> "status",
     code           |-> 200,
     status         |-> IF s.isRunning THEN "ACTIVE" ELSE "IDLE",
     lastRun        |-> s.lastRun,
     nextRun        |-> s.nextRun,
     isRunning      |-> s.isRunning,
     stats          |-> s.stats,
     recentActivity |-> s.recentActivity]

RunResponse(c, ok, msg) ==
    [kind |-> "run", code |-> c, success |-> ok, message |-> msg]

----------------------------------------------------------------------------
(* The server *)

\* app.get('/api/status')
HandleStatus ==
    /\ up
    /\ state' = updateStatsFromLogs(state, logs, today)
    /\ resp' = StatusBody(state')
    /\ UNCHANGED <<up, alive>>

\* a guard that never rejects
AlreadyRunning_Never(s) == FALSE

\* the guard of app.post('/api/run')
AlreadyRunning(s) == s.isRunning

\* a try block that forgets the flag, and one that forgets lastRun
MarkRunning_NoFlag(s, t) == [s EXCEPT !.lastRun = t]
MarkRunning_NoLastRun(s, t) == [s EXCEPT !.isRunning = TRUE]

\* the try block's first two assignments
MarkRunning(s, t) == [s EXCEPT !.isRunning = TRUE, !.lastRun = t]

\* the catch block
ClearRunning(s) == [s EXCEPT !.isRunning = FALSE]

\* a 'close' listener that does not clear the flag
OnClose_KeepsFlag(s, t) == [s EXCEPT !.nextRun = t + NextRunDelay]

\* the 'close' listener
OnClose(s, t) == [s EXCEPT !.isRunning = FALSE, !.nextRun = t + NextRunDelay]

\* app.post('/api/run').  outcome is what spawn('python', ['main.py']) does:
\*   started     the child runs; 'close' comes later
\*   throws      spawn (or wiring its streams) throws: the catch block runs
\*   startError  the child cannot be started (python is not on the PATH):
\*               spawn returns, the answer is written, and on the next tick
\*               the child emits 'error'.  No 'error' listener is registered,
\*               so the event is thrown and the node process terminates.
HandleRun(outcome) ==
    /\ up
    /\ IF AlreadyRunning(state)
       THEN /\ resp' = RunResponse(400, FALSE, "Integration is already running")
            /\ UNCHANGED <<up, state, alive>>
       ELSE CASE outcome = "started" ->
                   /\ state' = MarkRunning(state, now)
                   /\ alive' = alive + 1
                   /\ resp' = RunResponse(200, TRUE, "Integration started")
                   /\ UNCHANGED up
              [] outcome = "throws" ->
                   /\ state' = ClearRunning(MarkRunning(state, now))
                   /\ resp' = RunResponse(500, FALSE, "Failed to start integration")
                   /\ UNCHANGED <<up, alive>>
              [] outcome = "startError" ->
                   /\ state' = MarkRunning(state, now)
                   /\ resp' = RunResponse(200, TRUE, "Integration started")
                   /\ up' = FALSE
                   /\ UNCHANGED alive

\* pythonProcess.on('close', (code) => ...)
HandleClose(code) ==
    /\ up
    /\ alive > 0
    /\ alive' = alive - 1
    /\ state' = OnClose(state, now)
    /\ resp' = NoResp
    /\ UNCHANGED up

----------------------------------------------------------------------------
(* The environment: the clock, the calendar and main.py's log *)

TotalLines ==
    LET RECURSIVE Sum(_)
        Sum(D) == IF D = {} THEN 0
                  ELSE LET d == CHOOSE x \in D : TRUE IN
                       Len(logs[d].lines) + Sum(D \ {d})
    IN Sum(Days)

Tick ==
    /\ up
    /\ now < MaxTime
    /\ now' = now + 1
    /\ resp' = NoResp
    /\ UNCHANGED <<up, state, alive, today, logs>>
    /\ UNCHANGED clientVars

NewDay ==
    /\ up
    /\ now < MaxTime
    /\ today < MaxDay
    /\ now' = now + 1
    /\ today' = today + 1
    /\ resp' = NoResp
    /\ UNCHANGED <<up, state, alive, logs>>
    /\ UNCHANGED clientVars

\* main.py opens today's log file
OpenLog ==
    /\ up
    /\ logs[today] = NoFile
    /\ logs' = [logs EXCEPT ![today] = File(<<>>)]
    /\ resp' = NoResp
    /\ UNCHANGED <<up, state, alive, now, today>>
    /\ UNCHANGED clientVars

\* main.py writes a line to today's log file
AppendLog ==
    /\ up
    /\ logs[today] # NoFile
    /\ TotalLines < MaxLogLines
    /\ \E l \in LinesOn(today) : logs' = [logs EXCEPT ![today] = File(Append(@.lines, l))]
    /\ resp' = NoResp
    /\ UNCHANGED <<up, state, alive, now, today>>
    /\ UNCHANGED clientVars

----------------------------------------------------------------------------
(* The server as any HTTP client sees it *)

GetStatus ==
    /\ HandleStatus
    /\ UNCHANGED envVars
    /\ UNCHANGED clientVars

PostRun ==
    /\ \E outcome \in SpawnOutcomes : HandleRun(outcome)
    /\ UNCHANGED envVars
    /\ UNCHANGED clientVars

Close ==
    /\ \E code \in ExitCodes : HandleClose(code)
    /\ UNCHANGED envVars
    /\ UNCHANGED clientVars

Init ==
    /\ up = TRUE
    /\ state = InitState
    /\ alive = 0
    /\ now = 0
    /\ today = 0
    /\ logs = [d \in Days |-> NoFile]
    /\ resp = NoResp
    /\ btnDisabled = FALSE
    /\ btnLabel = "Run Now"
    /\ statusText = "Checking status..."
    /\ pollReq = Idle
    /\ runReq = Idle
    /\ latest = "unknown"

Next ==
    \/ GetStatus
    \/ PostRun
    \/ Close
    \/ Tick
    \/ NewDay
    \/ OpenLog
    \/ AppendLog

Spec == Init /\ [][Next]_vars

----------------------------------------------------------------------------
(* The browser monitor (public/js/monitor.js).  One status fetch and one   *)
(* run fetch are followed at a time; pollReq and runReq hold "idle",       *)
(* "sent", or the answer on its way back.                                  *)

\* formatStatus
formatStatus(status) ==
    CASE status = "ACTIVE"  -> "Running"
      [] status = "ERROR"   -> "Error"
      [] status = "WARNING" -> "Warning"
      [] status = "IDLE"    -> "Idle"
      [] OTHER              -> status

\* updateUI, line 60: this.runNowBtn.disabled = data.isRunning
ButtonAfterStatus(data) == data.isRunning

\* triggerManualRun, the finally block: this.runNowBtn.disabled = false
ButtonAfterRun(data) == FALSE

\* setInterval(() => this.updateStatus(), 30000): fetch('/api/status')
PollSend ==
    /\ pollReq.kind = "idle"
    /\ pollReq' = Sent
    /\ resp' = NoResp
    /\ UNCHANGED <<up, state, alive>>
    /\ UNCHANGED envVars
    /\ UNCHANGED <<btnDisabled, btnLabel, statusText, runReq, latest>>

\* the server answers the browser's status request
ServerPoll ==
    /\ pollReq.kind = "sent"
    /\ HandleStatus
    /\ pollReq' = resp'
    /\ UNCHANGED envVars
    /\ UNCHANGED <<btnDisabled, btnLabel, statusText, runReq, latest>>

\* updateStatus: the answer arrives, updateUI(data)
PollRecv ==
    /\ pollReq.kind \notin {"idle", "sent"}
    /\ statusText' = formatStatus(pollReq.status)
    /\ btnDisabled' = ButtonAfterStatus(pollReq)
    /\ latest' = IF pollReq.isRunning THEN "running" ELSE "idle"
    /\ pollReq' = Idle
    /\ resp' = NoResp
    /\ UNCHANGED <<up, state, alive>>
    /\ UNCHANGED envVars
    /\ UNCHANGED <<btnLabel, runReq>>

\* updateStatus: fetch rejects, setErrorState()
PollFail ==
    /\ pollReq.kind # "idle"
    /\ statusText' = "Error fetching status"
    /\ pollReq' = Idle
    /\ resp' = NoResp
    /\ UNCHANGED <<up, state, alive>>
    /\ UNCHANGED envVars
    /\ UNCHANGED <<btnDisabled, btnLabel, runReq, latest>>

\* a click on Run Now (a disabled button fires no click): triggerManualRun
\* up to its await fetch('/api/run', { method: 'POST' })
ClickRun ==
    /\ ~btnDisabled
    /\ runReq.kind = "idle"
    /\ btnDisabled' = TRUE
    /\ btnLabel' = "Running..."
    /\ runReq' = Sent
    /\ resp' = NoResp
    /\ UNCHANGED <<up, state, alive>>
    /\ UNCHANGED envVars
    /\ UNCHANGED <<statusText, pollReq, latest>>

\* the server answers the browser's run request
ServerRun ==
    /\ runReq.kind = "sent"
    /\ \E outcome \in SpawnOutcomes : HandleRun(outcome)
    /\ runReq' = resp'
    /\ UNCHANGED envVars
    /\ UNCHANGED <<btnDisabled, btnLabel, statusText, pollReq, latest>>

\* triggerManualRun after the await: the answer arrives, then finally
RunRecv ==
    /\ runReq.kind \notin {"idle", "sent"}
    /\ btnDisabled' = ButtonAfterRun(runReq)
    /\ btnLabel' = "Run Now"
    /\ latest' = IF runReq.success THEN "running" ELSE "unknown"
    /\ runReq' = Idle
    /\ resp' = NoResp
    /\ UNCHANGED <<up, state, alive>>
    /\ UNCHANGED envVars
    /\ UNCHANGED <<statusText, pollReq>>

\* triggerManualRun: fetch rejects, catch, then finally
RunFail ==
    /\ runReq.kind # "idle"
    /\ btnDisabled' = FALSE
    /\ btnLabel' = "Run Now"
    /\ runReq' = Idle
    /\ resp' = NoResp
    /\ UNCHANGED <<up, state, alive>>
    /\ UNCHANGED envVars
    /\ UNCHANGED <<statusText, pollReq, latest>>

ClientNext ==
    \/ PollSend
    \/ ServerPoll
    \/ PollRecv
    \/ PollFail
    \/ ClickRun
    \/ ServerRun
    \/ RunRecv
    \/ RunFail
    \/ Close
    \/ Tick

ClientSpec == Init /\ [][ClientNext]_vars

\* the child process eventually closes once it has been started
LiveSpec == Init /\ [][Next]_vars /\ WF_vars(Close)

----------------------------------------------------------------------------
(* Properties *)

\* a step that handled POST /api/run, and one that handled GET /api/status
RunHandled == resp'.kind = "run"
StatusHandled == resp'.kind = "status"

\* C1: at most one cycle is in progress at any time: the number of python
\* processes spawned by the server and not yet closed never exceeds 1.
C1_AtMostOneCycle == alive <= 1

\* a second cycle is running after an earlier one has closed
C1_Witness ==
    /\ alive = 1
    /\ state.isRunning
    /\ state.nextRun # Null
    /\ state.lastRun > 0

\* C2: a run request received while isRunning is true is rejected, not
\* queued: it is answered 400 / success=false / 'Integration is already
\* running', spawns no process and changes nothing of the state; and the flag
\* is only ever raised, and a process only ever spawned, by a step that
\* answers a run request with success.
C2_RejectedNotQueued ==
    [][ /\ (state.isRunning /\ RunHandled) =>
              /\ resp' = RunResponse(400, FALSE, "Integration is already running")
              /\ alive' = alive
              /\ state' = state
        /\ ((~state.isRunning /\ state'.isRunning) \/ alive' > alive) =>
              (RunHandled /\ resp'.success /\ ~state.isRunning)
      ]_vars

\* a run request has just been rejected while a cycle is in progress
C2_Witness ==
    /\ resp = RunResponse(400, FALSE, "Integration is already running")
    /\ state.isRunning
    /\ alive = 1

\* C3: the running flag is cleared whichever way an accepted run ends:
\* whenever isRunning is true, the server is later up with isRunning false
\* (so a later run request is accepted).
C3_FlagEventuallyCleared ==
    [](state.isRunning => <>(up /\ ~state.isRunning))

\* C4 (as stated): the status query changes no server state.
C4_StatusReadOnly ==
    [][StatusHandled => state' = state]_vars

\* C4 (amended): the status query is answered whenever the server is up,
\* idle or running, and leaves isRunning, lastRun and nextRun (and the set of
\* running processes) as they were; only stats and recentActivity, which it
\* recomputes from today's log file, may differ afterwards.
C4_StatusKeepsRunState ==
    /\ [](up => ENABLED GetStatus)
    /\ [][StatusHandled =>
            /\ state'.isRunning = state.isRunning
            /\ state'.lastRun = state.lastRun
            /\ state'.nextRun = state.nextRun
            /\ alive' = alive
            /\ up' = up]_vars

\* a status query answered during a cycle that has refreshed the statistics
C4_Witness ==
    /\ resp.kind = "status"
    /\ resp.isRunning
    /\ resp.lastRun # Null
    /\ resp.stats.totalEvents > 0

\* C5: while the server is up its flag is true exactly when a python process
\* it spawned is alive, and every status answer says ACTIVE / isRunning=true
\* exactly then and IDLE / isRunning=false otherwise.
C5_StatusShowsProcess ==
    /\ up => (state.isRunning <=> alive > 0)
    /\ resp.kind = "status" =>
          \/ (resp.status = "ACTIVE" /\ resp.isRunning /\ alive > 0)
          \/ (resp.status = "IDLE" /\ ~resp.isRunning /\ alive = 0)

\* a status answer of ACTIVE while the spawned process is alive
C5_Witness ==
    /\ resp.kind = "status"
    /\ resp.status = "ACTIVE"
    /\ alive = 1

\* C6 (as stated): a run request made while idle always starts a cycle.
C6_IdleRunAlwaysStarts ==
    [][(~state.isRunning /\ RunHandled) =>
          /\ state'.isRunning
          /\ state'.lastRun = now
          /\ alive' = alive + 1
          /\ resp'.success]_vars

\* C6 (amended): a run request handled while idle always sets lastRun to the
\* current time and spawns at most one process.  When spawn returns, the
\* answer is success=true and isRunning is true (with exactly one process
\* spawned unless the child could not be started, which ends the server);
\* when spawn throws, the answer is 500 / success=false, isRunning is false
\* and no process is spawned.  lastRun leaves null only by such a request and
\* never decreases.
C6_IdleRunSetsLastRun ==
    [][ /\ (~state.isRunning /\ RunHandled) =>
              /\ state'.lastRun = now
              /\ \/ /\ resp' = RunResponse(200, TRUE, "Integration started")
                    /\ state'.isRunning
                    /\ IF up' THEN alive' = alive + 1 ELSE alive' = alive
                 \/ /\ resp' = RunResponse(500, FALSE, "Failed to start integration")
                    /\ ~state'.isRunning
                    /\ alive' = alive
                    /\ up'
        /\ state'.lastRun # state.lastRun =>
              (RunHandled /\ ~state.isRunning /\ state'.lastRun > state.lastRun)
      ]_vars

\* an accepted run request, after an earlier cycle has closed
C6_Witness ==
    /\ resp = RunResponse(200, TRUE, "Integration started")
    /\ up
    /\ state.isRunning
    /\ state.lastRun = now
    /\ state.nextRun # Null

\* every 'Successfully processed N events' line logged so far, oldest first
RECURSIVE LoggedUpTo(_)
LoggedUpTo(d) ==
    IF d < 0 THEN <<>>
    ELSE LoggedUpTo(d - 1)
         \o SelectSeq(logs[d].lines, LAMBDA l : l.success /\ l.count # NoCount)
AllLogged == LoggedUpTo(MaxDay)

\* C7: the statistics of a status answer summarize everything logged so far:
\* totalEvents is the sum of N over all 'Successfully processed N events'
\* lines, lastBatchSize the N of the most recent one.
C7_StatsSummarizeLog ==
    resp.kind = "status" =>
        /\ resp.stats.totalEvents = SumCounts(AllLogged)
        /\ AllLogged # <<>> =>
               resp.stats.lastBatchSize = AllLogged[Len(AllLogged)].count

\* the ingestion attempts recorded in today's log
TodaysAttempts == logs[today].lines

\* C8: the recentActivity of a status answer lists every ingestion attempt of
\* today's log, the successful ones with status SUCCESS and the failed ones
\* with an error status.
C8_ActivityListsAttempts ==
    resp.kind = "status" =>
        LET ra == resp.recentActivity
            k  == Len(ra) - Len(TodaysAttempts)
        IN /\ k >= 0
           /\ \A i \in 1..Len(TodaysAttempts) :
                 /\ ra[k + i].timestamp = TodaysAttempts[i].ts
                 /\ (ra[k + i].status = "SUCCESS") <=> TodaysAttempts[i].success

\* C9: the Run Now button is disabled whenever the latest response the
\* browser processed says a cycle is in progress (a status answer with
\* isRunning=true, or a run request answered with success).
C9_ButtonDisabledWhileRunning ==
    latest = "running" => btnDisabled

====
